---- MODULE Spec2Model ----
(***************************************************************************)
(* Model of src/src/bitfield.rs: the BitField trait as implemented for the *)
(* unsigned integer types u8, u16, u32 and u64, and BitFieldIterator.      *)
(*                                                                         *)
(* A value of an unsigned integer type of w bits is the sequence of its w  *)
(* bits, least significant first: bit i of the integer is element i+1 of   *)
(* the sequence.  The integer operators the generic implementation uses    *)
(* (From<u8>, <<, >>, !, &, |, ==, and + in the tests) are defined on      *)
(* these sequences with the meaning they have on the machine integers.     *)
(***************************************************************************)
EXTENDS Integers, Sequences, FiniteSets

(***************************************************************************)
(* Bounds of the model.                                                    *)
(***************************************************************************)
\* Values supplied by a caller: all bit patterns of the WinBits lowest and the
\* WinBits highest bits with the bits between them 0, and all bit patterns
\* of the FillBits lowest and the FillBits highest bits with the bits between
\* them 1.
WinBits == 3
FillBits == 2
\* Indices given to one_at and zero_at in the specification with two
\* iterators: the PairIdx lowest and the PairIdx highest of the type.
PairIdx == 1
\* The same, for the specification that runs next() one statement at a time.
StepBits == 2
\* next() calls observed on an exhausted iterator.
MaxNones == 2

(***************************************************************************)
(* The integer types (BitSized, lines 34-61).                              *)
(***************************************************************************)
Types == {"u8", "u16", "u32", "u64"}

\* <T as BitSized>::size()
BitSized_size(t) == CASE t = "u8"  -> 8
                      [] t = "u16" -> 16
                      [] t = "u32" -> 32
                      [] t = "u64" -> 64

Bit == {0, 1}

\* The values of the unsigned integer type of w bits.
IsValue(x, w) == /\ DOMAIN x = 1..w
                 /\ \A i \in 1..w : x[i] \in Bit

\* T::from(n) for n: u8 (From<u8>, lossless zero extension).
from(w, n) == [i \in 1..w |-> IF i <= 8 THEN (n \div (2 ^ (i - 1))) % 2 ELSE 0]

\* x << n for n < w: the bits shifted out at the top are lost.  (one_at is
\* called with index < size() only; a shift by w or more is outside its
\* contract.)
Shl(x, n) == [i \in 1..Len(x) |-> IF i - n >= 1 THEN x[i - n] ELSE 0]

\* Shr as it would be on a signed type: the top bit is copied in.
Shr_signed(x, n) ==
    [i \in 1..Len(x) |-> IF i + n <= Len(x) THEN x[i + n] ELSE x[Len(x)]]

\* x >> n on an unsigned type: zeroes come in at the top.
Shr(x, n) == [i \in 1..Len(x) |-> IF i + n <= Len(x) THEN x[i + n] ELSE 0]

\* !x
Not(x) == [i \in 1..Len(x) |-> 1 - x[i]]

\* x & y
BitAnd(x, y) == [i \in 1..Len(x) |-> IF x[i] = 1 /\ y[i] = 1 THEN 1 ELSE 0]

\* x | y
BitOr(x, y) == [i \in 1..Len(x) |-> IF x[i] = 1 \/ y[i] = 1 THEN 1 ELSE 0]

\* The bits i.. of x + y, given the carry into bit i.
RECURSIVE AddBits(_, _, _, _)
AddBits(x, y, i, carry) ==
    IF i > Len(x)
    THEN << >>
    ELSE << (x[i] + y[i] + carry) % 2 >>
         \o AddBits(x, y, i + 1, (x[i] + y[i] + carry) \div 2)

\* x + y, the carry out of the top bit lost.
Add(x, y) == AddBits(x, y, 1, 0)

(***************************************************************************)
(* impl<T> BitField for T (lines 63-96).                                   *)
(***************************************************************************)
size(t) == BitSized_size(t)

\* one_at with the index counted from 1.
one_at_next_bit(t, index) == Shl(from(size(t), 1), index + 1)

one_at(t, index) == Shl(from(size(t), 1), index)

\* zero_at written as !1 << index: the bits below index are cleared too.
zero_at_not_then_shift(t, index) == Shl(Not(from(size(t), 1)), index)

zero_at(t, index) == Not(one_at(t, index))

BitFieldIterator(bitfield, index) == [bitfield |-> bitfield, index |-> index]

\* iter with the cursor started at 1.
iter_from_one(self) == BitFieldIterator(self, 1)

iter(self) == BitFieldIterator(self, 0)

\* full comparing with zero_at(0) alone: bit 0 is left out.
full_without_bit0(t, self) == self = zero_at(t, 0)

full(t, self) == self = BitOr(one_at(t, 0), zero_at(t, 0))

(***************************************************************************)
(* impl Iterator for BitFieldIterator (lines 102-123).                     *)
(***************************************************************************)
None == << >>
Some(i) == << i >>

\* The loop condition of line 114.
LowBitClear(bitfield) ==
    BitAnd(from(Len(bitfield), 1), bitfield) = from(Len(bitfield), 0)

\* The loop of lines 114-117, run until its condition is false.
RECURSIVE SkipZeros(_)
SkipZeros(it) ==
    IF LowBitClear(it.bitfield)
    THEN SkipZeros(BitFieldIterator(Shr(it.bitfield, 1), it.index + 1))
    ELSE it

\* next returning the cursor after its last increment (line 120 without -1).
next_returns_cursor(it) ==
    IF it.bitfield = from(Len(it.bitfield), 0)
    THEN [ret |-> None, it |-> it]
    ELSE LET s == SkipZeros(it)
             t == BitFieldIterator(Shr(s.bitfield, 1), s.index + 1)
         IN  [ret |-> Some(t.index), it |-> t]

\* next without the increment of line 119, returning the cursor as it is.
next_keeps_cursor(it) ==
    IF it.bitfield = from(Len(it.bitfield), 0)
    THEN [ret |-> None, it |-> it]
    ELSE LET s == SkipZeros(it)
             t == BitFieldIterator(Shr(s.bitfield, 1), s.index)
         IN  [ret |-> Some(t.index), it |-> t]

\* next taking a clear lowest bit for exhaustion (line 111 testing bit 0).
next_none_on_clear_low_bit(it) ==
    IF LowBitClear(it.bitfield)
    THEN [ret |-> None, it |-> it]
    ELSE LET t == BitFieldIterator(Shr(it.bitfield, 1), it.index + 1)
         IN  [ret |-> Some(t.index - 1), it |-> t]

\* next moving the cursor on also when it returns None.
next_none_advances(it) ==
    IF it.bitfield = from(Len(it.bitfield), 0)
    THEN [ret |-> None, it |-> BitFieldIterator(it.bitfield, it.index + 1)]
    ELSE LET s == SkipZeros(it)
             t == BitFieldIterator(Shr(s.bitfield, 1), s.index + 1)
         IN  [ret |-> Some(t.index - 1), it |-> t]

\* One call of next(): the Option it returns and the iterator it leaves.
next(it) ==
    IF it.bitfield = from(Len(it.bitfield), 0)
    THEN [ret |-> None, it |-> it]
    ELSE LET s == SkipZeros(it)
             t == BitFieldIterator(Shr(s.bitfield, 1), s.index + 1)
         IN  [ret |-> Some(t.index - 1), it |-> t]

(***************************************************************************)
(* State: a caller of type T holding one bitfield value per slot, and the  *)
(* iterator it created over that value.                                    *)
(***************************************************************************)
VARIABLES
    T,       \* the integer type the trait is used at
    vals,    \* vals[k]: the bitfield value of slot k, NoVal before it is made
    how,     \* how[k]: the operation that made vals[k], and its index
    its,     \* its[k]: the BitFieldIterator made by vals[k].iter()
    out,     \* out[k]: the indices its[k] has yielded, in order
    ret,     \* ret[k]: what the last next() on its[k] returned
    nones,   \* nones[k]: the next() calls on its[k] that returned None
    isfull,  \* isfull[k]: what vals[k].full() returned, None before the call
    pc,      \* pc[k]: where a next() run statement by statement stands
    shifts   \* shifts[k]: right shifts made by statement-wise next() calls

vars == <<T, vals, how, its, out, ret, nones, isfull, pc, shifts>>

\* The slots of a caller with one value, and of a caller with two.
Solo == {1}
Both == {1, 2}

NoVal == << >>

NoIter == BitFieldIterator(NoVal, 0)

\* All values of w bits whose n lowest and n highest bits are arbitrary and
\* whose other bits are all `fill`.
Patterns(w, n, fill) ==
    { [i \in 1..w |-> IF i <= n THEN lo[i]
                      ELSE IF i > w - n THEN hi[i - (w - n)]
                      ELSE fill] :
        lo \in [1..n -> Bit], hi \in [1..n -> Bit] }

Inputs(w) == Patterns(w, WinBits, 0) \cup Patterns(w, FillBits, 1)

StepInputs(w) == Patterns(w, StepBits, 0) \cup Patterns(w, StepBits, 1)

\* The n lowest and the n highest indices of a type of w bits.
Ends(w, n) == {i \in 0..(w - 1) : i < n \/ i >= w - n}

InitWith(slots) ==
    /\ T \in Types
    /\ vals = [k \in slots |-> NoVal]
    /\ how = [k \in slots |-> [op |-> "none", index |-> 0]]
    /\ its = [k \in slots |-> NoIter]
    /\ out = [k \in slots |-> << >>]
    /\ ret = [k \in slots |-> None]
    /\ nones = [k \in slots |-> 0]
    /\ isfull = [k \in slots |-> None]
    /\ pc = [k \in slots |-> "idle"]
    /\ shifts = [k \in slots |-> 0]

\* The caller supplies a value of type T (the `input` of the tests).
Given(k, S) ==
    /\ vals[k] = NoVal
    /\ \E v \in S :
          /\ vals' = [vals EXCEPT ![k] = v]
          /\ how' = [how EXCEPT ![k] = [op |-> "given", index |-> 0]]
    /\ UNCHANGED <<T, its, out, ret, nones, isfull, pc, shifts>>

\* T::one_at(index), index < T::size().
OneAt(k, I) ==
    /\ vals[k] = NoVal
    /\ \E index \in I :
          /\ vals' = [vals EXCEPT ![k] = one_at(T, index)]
          /\ how' = [how EXCEPT ![k] = [op |-> "one_at", index |-> index]]
    /\ UNCHANGED <<T, its, out, ret, nones, isfull, pc, shifts>>

\* T::zero_at(index), index < T::size().
ZeroAt(k, I) ==
    /\ vals[k] = NoVal
    /\ \E index \in I :
          /\ vals' = [vals EXCEPT ![k] = zero_at(T, index)]
          /\ how' = [how EXCEPT ![k] = [op |-> "zero_at", index |-> index]]
    /\ UNCHANGED <<T, its, out, ret, nones, isfull, pc, shifts>>

\* vals[k].iter(): a new iterator, replacing the one the slot had.  The
\* caller may call it again at any time before it asks full().
Iter(k) ==
    /\ vals[k] # NoVal
    /\ isfull[k] = None
    /\ pc[k] = "idle"
    /\ its' = [its EXCEPT ![k] = iter(vals[k])]
    /\ out' = [out EXCEPT ![k] = << >>]
    /\ ret' = [ret EXCEPT ![k] = None]
    /\ nones' = [nones EXCEPT ![k] = 0]
    /\ shifts' = [shifts EXCEPT ![k] = 0]
    /\ UNCHANGED <<T, vals, how, isfull, pc>>

\* vals[k].full(), called once the iterator over vals[k] has been run to its
\* end.
Full(k) ==
    /\ vals[k] # NoVal
    /\ nones[k] >= 1
    /\ isfull[k] = None
    /\ isfull' = [isfull EXCEPT ![k] = Some(full(T, vals[k]))]
    /\ UNCHANGED <<T, vals, how, its, out, ret, nones, pc, shifts>>

\* NextCall with the cursor kept in one place for all iterators.
NextCall_shared_cursor(k) ==
    /\ its[k] # NoIter
    /\ pc[k] = "idle"
    /\ nones[k] < MaxNones
    /\ LET r == next(its[k]) IN
          /\ its' = [j \in DOMAIN its |->
                       IF j = k THEN r.it
                       ELSE IF its[j] = NoIter THEN its[j]
                       ELSE BitFieldIterator(its[j].bitfield, r.it.index)]
          /\ ret' = [ret EXCEPT ![k] = r.ret]
          /\ out' = [out EXCEPT ![k] = IF r.ret = None THEN @ ELSE @ \o r.ret]
          /\ nones' = [nones EXCEPT ![k] = IF r.ret = None THEN @ + 1 ELSE @]
    /\ UNCHANGED <<T, vals, how, isfull, pc, shifts>>

\* its[k].next(), the whole call.
NextCall(k) ==
    /\ its[k] # NoIter
    /\ pc[k] = "idle"
    /\ nones[k] < MaxNones
    /\ LET r == next(its[k]) IN
          /\ its' = [its EXCEPT ![k] = r.it]
          /\ ret' = [ret EXCEPT ![k] = r.ret]
          /\ out' = [out EXCEPT ![k] = IF r.ret = None THEN @ ELSE @ \o r.ret]
          /\ nones' = [nones EXCEPT ![k] = IF r.ret = None THEN @ + 1 ELSE @]
    /\ UNCHANGED <<T, vals, how, isfull, pc, shifts>>

(***************************************************************************)
(* One caller, one value, one iterator.                                    *)
(***************************************************************************)
Init == InitWith(Solo)

Next ==
    \E k \in Solo :
        \/ Given(k, Inputs(size(T)))
        \/ OneAt(k, 0..(size(T) - 1))
        \/ ZeroAt(k, 0..(size(T) - 1))
        \/ Iter(k)
        \/ Full(k)
        \/ NextCall(k)

Spec == Init /\ [][Next]_vars

(***************************************************************************)
(* Two iterators of one caller, over the same or over different values,    *)
(* their next() calls interleaved in any order.                            *)
(***************************************************************************)
PairGiven(w) == {from(w, 0), Not(from(w, 0)), from(w, 37)}

InitPair == InitWith(Both)

NextPair ==
    \E k \in Both :
        \/ Given(k, PairGiven(size(T)))
        \/ OneAt(k, Ends(size(T), PairIdx))
        \/ Iter(k)
        \/ NextCall(k)

SpecPair == InitPair /\ [][NextPair]_vars

(***************************************************************************)
(* next() run one statement at a time (lines 108-122).                     *)
(***************************************************************************)
\* Lines 111-113: the test for exhaustion; None is returned at once.
NextEnter(k) ==
    /\ its[k] # NoIter
    /\ pc[k] = "idle"
    /\ nones[k] < MaxNones
    /\ IF its[k].bitfield = from(size(T), 0)
       THEN /\ ret' = [ret EXCEPT ![k] = None]
            /\ nones' = [nones EXCEPT ![k] = @ + 1]
            /\ pc' = pc
       ELSE /\ pc' = [pc EXCEPT ![k] = "while"]
            /\ UNCHANGED <<ret, nones>>
    /\ UNCHANGED <<T, vals, how, its, out, isfull, shifts>>

\* Lines 114-117: one turn of the loop.
LoopStep(k) ==
    /\ pc[k] = "while"
    /\ LowBitClear(its[k].bitfield)
    /\ its' = [its EXCEPT ![k] =
                 BitFieldIterator(Shr(its[k].bitfield, 1), its[k].index + 1)]
    /\ shifts' = [shifts EXCEPT ![k] = @ + 1]
    /\ UNCHANGED <<T, vals, how, out, ret, nones, isfull, pc>>

\* Lines 118-120: the loop has ended; the set bit is shifted out and its
\* index returned.
NextYield(k) ==
    /\ pc[k] = "while"
    /\ ~LowBitClear(its[k].bitfield)
    /\ LET t == BitFieldIterator(Shr(its[k].bitfield, 1), its[k].index + 1) IN
          /\ its' = [its EXCEPT ![k] = t]
          /\ ret' = [ret EXCEPT ![k] = Some(t.index - 1)]
          /\ out' = [out EXCEPT ![k] = Append(@, t.index - 1)]
    /\ shifts' = [shifts EXCEPT ![k] = @ + 1]
    /\ pc' = [pc EXCEPT ![k] = "idle"]
    /\ UNCHANGED <<T, vals, how, nones, isfull>>

InitStep == InitWith(Solo)

NextStep ==
    \E k \in Solo :
        \/ Given(k, StepInputs(size(T)))
        \/ OneAt(k, 0..(size(T) - 1))
        \/ Iter(k)
        \/ NextEnter(k)
        \/ LoopStep(k)
        \/ NextYield(k)

\* A call of next() that has begun runs on: nothing suspends it.
SpecStep ==
    /\ InitStep
    /\ [][NextStep]_vars
    /\ \A k \in Solo : WF_vars(LoopStep(k)) /\ WF_vars(NextYield(k))

(***************************************************************************)
(* The test iterator_results_equal_number (lines 153-159) on the indices   *)
(* an iterator has yielded: indices.map(|x| 1 << x).fold(0, |x, y| x + y). *)
(***************************************************************************)
\* The fold from the j-th index on, acc being the sum so far.
RECURSIVE FoldFrom(_, _, _)
FoldFrom(indices, j, acc) ==
    IF j > Len(indices)
    THEN acc
    ELSE FoldFrom(indices, j + 1,
                  Add(acc, Shl(from(Len(acc), 1), indices[j])))

SumOfPowers(w, indices) == FoldFrom(indices, 1, from(w, 0))

(***************************************************************************)
(* Vocabulary of the properties, stated on the bits themselves.            *)
(***************************************************************************)
\* The indices of the bits of v that are 1.
SetBits(v) == {i \in 0..(Len(v) - 1) : v[i + 1] = 1}

PopCount(v) == Cardinality(SetBits(v))

IsZero(v) == \A i \in 1..Len(v) : v[i] = 0

IsOnes(v) == \A i \in 1..Len(v) : v[i] = 1

Range(q) == {q[j] : j \in 1..Len(q)}

\* The next() calls made on its[k] since it was created.
Calls(k) == Len(out[k]) + nones[k]

\* its[k] has been run until next() returned None.
Exhausted(k) == its[k] # NoIter /\ nones[k] >= 1

\* The step is a completed next() call on its[k].
Called(k) == Len(out'[k]) + nones'[k] = Calls(k) + 1

TypeOK ==
    /\ T \in Types
    /\ \A k \in DOMAIN vals :
          /\ vals[k] = NoVal \/ IsValue(vals[k], size(T))
          /\ its[k] = NoIter \/ IsValue(its[k].bitfield, size(T))
          /\ nones[k] \in 0..MaxNones
          /\ pc[k] \in {"idle", "while"}

(***************************************************************************)
(* Properties.                                                             *)
(***************************************************************************)

\* C1 (reconstruction): when an iterator over a value v has been run until
\* next() returned None, the sum of 2^index over the indices it yielded,
\* computed in the arithmetic of the type, is v, and the indices yielded are
\* exactly the positions of the set bits of v.
C1_Reconstruction ==
    \A k \in DOMAIN its :
        Exhausted(k) =>
            /\ SumOfPowers(size(T), out[k]) = vals[k]
            /\ Range(out[k]) = SetBits(vals[k])

C1_Witness ==
    \E k \in DOMAIN its :
        /\ Exhausted(k)
        /\ T = "u64"
        /\ Len(out[k]) >= 3
        /\ vals[k][1] = 0 /\ vals[k][64] = 1

\* C2 (ascending order): the indices one iterator has yielded so far are
\* strictly increasing, and the first of them is the lowest set bit of the
\* value.
C2_Ascending ==
    \A k \in DOMAIN its :
        /\ \A j \in 1..(Len(out[k]) - 1) : out[k][j] < out[k][j + 1]
        /\ out[k] # << >> =>
              /\ out[k][1] \in SetBits(vals[k])
              /\ \A i \in SetBits(vals[k]) : out[k][1] <= i

C2_Witness ==
    \E k \in DOMAIN its :
        /\ Len(out[k]) >= 3
        /\ out[k][1] > 0
        /\ out[k][2] > out[k][1] + 1

\* C3 (single-bit round trip): for index < size(), the iterator over
\* one_at(index), run until next() returned None, has yielded the sequence
\* <<index>>.
C3_SingleBit ==
    \A k \in DOMAIN its :
        (how[k].op = "one_at" /\ Exhausted(k)) => out[k] = << how[k].index >>

C3_Witness ==
    \E k \in DOMAIN its :
        /\ how[k].op = "one_at"
        /\ how[k].index = size(T) - 1
        /\ Exhausted(k)

\* C4 (fullness): full() on a value returns true exactly when the iterator
\* over the value yields 0, 1, ..., size()-1 in that order, and exactly when
\* every bit of the value is set.
C4_Fullness ==
    \A k \in DOMAIN its :
        (isfull[k] # None /\ Exhausted(k)) =>
            /\ isfull[k][1] <=> out[k] = [j \in 1..size(T) |-> j - 1]
            /\ isfull[k][1] <=> IsOnes(vals[k])

C4_Witness ==
    \E k \in DOMAIN its :
        /\ Exhausted(k)
        /\ isfull[k] = Some(TRUE)
        /\ Len(out[k]) = size(T)

\* C5 (complement): for index < size(), zero_at(index) & one_at(index) is all
\* zeroes and zero_at(index) | one_at(index) is all ones; one_at(index) has
\* the one set bit index, zero_at(index) the one clear bit index.
C5_Complement ==
    \A k \in DOMAIN vals :
        /\ how[k].op = "zero_at" =>
              /\ IsZero(BitAnd(vals[k], one_at(T, how[k].index)))
              /\ IsOnes(BitOr(vals[k], one_at(T, how[k].index)))
              /\ SetBits(vals[k]) = (0..(size(T) - 1)) \ {how[k].index}
        /\ how[k].op = "one_at" => SetBits(vals[k]) = {how[k].index}

C5_Witness ==
    \E k \in DOMAIN vals :
        /\ how[k].op = "zero_at"
        /\ how[k].index = size(T) - 1
        /\ vals[k][1] = 1

\* C6 (length is popcount): an iterator run until next() returned None has
\* yielded as many indices as its value has set bits; on the all-zero value
\* the first next() returns None and nothing is yielded.
C6_LengthIsPopCount ==
    \A k \in DOMAIN its :
        /\ Exhausted(k) => Len(out[k]) = PopCount(vals[k])
        /\ (its[k] # NoIter /\ IsZero(vals[k]) /\ Calls(k) >= 1) =>
              (ret[k] = None /\ out[k] = << >>)

C6_Witness ==
    \E k \in DOMAIN its :
        /\ Exhausted(k)
        /\ PopCount(vals[k]) >= 2
        /\ PopCount(vals[k]) < size(T) - 2
        /\ vals[k][1] = 0

\* C6, the empty case, reached.
EmptyCaseReached ==
    \E k \in DOMAIN its : Exhausted(k) /\ IsZero(vals[k])

\* C7 (bounded termination), with next() run statement by statement: over
\* the life of an iterator at most size() right shifts are made and every
\* yielded index has cost one of them, so at most size() calls yield an index;
\* and a call of next() that has entered its loop leaves it.
C7_ShiftBound ==
    \A k \in DOMAIN its :
        /\ shifts[k] <= size(T)
        /\ Len(out[k]) <= shifts[k]
        /\ (its[k] # NoIter /\ shifts[k] = size(T)) => IsZero(its[k].bitfield)

C7_BoundedTermination ==
    /\ []C7_ShiftBound
    /\ \A k \in Solo : (pc[k] = "while") ~> (pc[k] = "idle")

C7_Witness ==
    \E k \in DOMAIN its :
        /\ T = "u64"
        /\ pc[k] = "idle"
        /\ shifts[k] = size(T)
        /\ Len(out[k]) = 1

\* The step leaves its[k] and what has been seen of it as they are.
Untouched(k) ==
    /\ its'[k] = its[k] /\ out'[k] = out[k]
    /\ ret'[k] = ret[k] /\ nones'[k] = nones[k]

\* The step replaces its[k] by a new iterator over vals[k], at cursor 0.
Fresh(k) ==
    /\ vals[k] # NoVal
    /\ its'[k] = BitFieldIterator(vals[k], 0)
    /\ out'[k] = << >> /\ nones'[k] = 0

\* The step is one next() call on its[k], with the result that the call has
\* on an iterator in the state of its[k] whatever else exists.
Advanced(k) ==
    /\ its[k] # NoIter
    /\ its'[k] = next(its[k]).it
    /\ ret'[k] = next(its[k]).ret
    /\ out'[k] = (IF ret'[k] = None THEN out[k] ELSE out[k] \o ret'[k])
    /\ nones'[k] = (IF ret'[k] = None THEN nones[k] + 1 ELSE nones[k])

\* The step touches at most one of the two iterators.
OneAtATime == Untouched(1) \/ Untouched(2)

\* C8 (independence): no step changes a value once it is made, iter()
\* included; iter() gives a new iterator at cursor 0; and with two iterators
\* whose next() calls are interleaved in any order, every step leaves each
\* iterator alone, or renews it, or advances it by one next() call exactly as
\* that call advances an iterator in the same state when it is the only one:
\* so each yields the sequence it yields when advanced alone.
C8_Independence ==
    [][/\ \A k \in Both :
             /\ vals[k] # NoVal => vals'[k] = vals[k]
             /\ Untouched(k) \/ Fresh(k) \/ Advanced(k)
       /\ OneAtATime]_vars

C8_Witness ==
    /\ its[1] # NoIter /\ its[2] # NoIter
    /\ vals[1] # vals[2]
    /\ Len(out[1]) >= 2 /\ Len(out[2]) >= 2
    /\ its[1].index # its[2].index
    /\ nones[1] = 0 /\ nones[2] = 0

\* C9 (exhaustion is terminal): a next() call on an iterator whose remaining
\* bits are all zero returns None and leaves the remaining bits, the cursor
\* and the yielded sequence as they are; and once a call has returned None,
\* every later call returns None and yields nothing.
C9_ExhaustionTerminal ==
    [][\A k \in DOMAIN its :
          /\ (its[k] # NoIter /\ IsZero(its[k].bitfield) /\ Called(k)) =>
                (ret'[k] = None /\ its'[k] = its[k] /\ out'[k] = out[k])
          /\ (Exhausted(k) /\ Called(k)) =>
                (ret'[k] = None /\ out'[k] = out[k])]_vars

C9_Witness ==
    \E k \in DOMAIN its :
        /\ its[k] # NoIter
        /\ nones[k] = MaxNones
        /\ Len(out[k]) >= 2

\* C10 (iterator state): for an iterator made by iter() on v, after any
\* number of next() calls, bit i of the remaining bits is bit i + cursor of
\* v (zero beyond the top), 0 <= cursor <= size(), and an index just yielded
\* is cursor - 1 and the position of a set bit of v.
C10_IteratorState ==
    \A k \in DOMAIN its :
        its[k] # NoIter =>
            LET cursor == its[k].index
                v == vals[k]
            IN  /\ cursor \in 0..size(T)
                /\ IsValue(its[k].bitfield, size(T))
                /\ \A i \in 1..size(T) :
                      its[k].bitfield[i] =
                          IF i + cursor <= size(T) THEN v[i + cursor] ELSE 0
                /\ ret[k] # None =>
                      /\ ret[k] = Some(cursor - 1)
                      /\ out[k][Len(out[k])] = cursor - 1
                      /\ (cursor - 1) \in SetBits(v)

C10_Witness ==
    \E k \in DOMAIN its :
        /\ T = "u64"
        /\ its[k].index = size(T)
        /\ ret[k] = Some(63)
        /\ Len(out[k]) >= 2
        /\ vals[k][1] = 0

====
